---- MODULE Spec2Model ----
(***************************************************************************)
(* Payment confirmation flow of the checkout modal (PaymentModal) and the  *)
(* part of App that mounts and unmounts it.                                *)
(*                                                                         *)
(* Two builds of the modal exist in the repository:                        *)
(*   variant "A"  src/indes/src/components/PaymentModal.tsx                *)
(*   variant "B"  src/unnamed/part_002                                     *)
(*                                                                         *)
(* Execution model (browser event loop + React):                           *)
(*  - time is counted in whole seconds; every timer stores the seconds     *)
(*    left until it fires, Tick lets one second pass and is only possible  *)
(*    when no timer is due;                                                *)
(*  - a handler (timer callback, promise continuation, click) runs to its  *)
(*    next await without interruption; the state updates it makes are      *)
(*    committed in one render, and the effects of that render run before   *)
(*    the next event (Commit);                                             *)
(*  - a timer or pending call keeps the closure of the render that created *)
(*    it: the values of isProcessing, status, hasSentToTelegram it reads   *)
(*    are those captured in `cl`, not the current state;                   *)
(*  - a network call answers after any delay, with any outcome;            *)
(*  - state updates of an unmounted component are ignored.                 *)
(***************************************************************************)
EXTENDS Integers, FiniteSets, Sequences, TLC

\* ---- program constants (seconds, cents) ---------------------------------
MAX_VERIFICATION_ATTEMPTS == 12
VERIFICATION_TIMEOUT == 60
QR_COOLDOWN_PERIOD == 180
CHECK_INTERVAL == 5
FIRST_CHECK_DELAY == 7
QR_EXPIRY == 300
COUNTDOWN_FROM == 5
PAYMENT_COOLDOWN == 7
MIN_AMOUNT == 1

\* ---- bounds of the model -------------------------------------------------
\* a modal instance issues at most MaxPolls verification attempts (MaxVerifyCount
\* in the specification where every answer is 'not found'); the other request
\* counters saturate at their bound
MaxPolls == 2
MaxVerifyCount == 13
MaxTelegramCount == 2
MaxKhqrCount == 1
\* a network call answers at most MaxDelay seconds after it was issued, or
\* not at all while the page is open
MaxDelay == 0

Variants == {"A", "B"}
\* prices of the products in cents, and the discounts a promo code gives
Prices == {0, 500}
Discounts == {0, 100}
\* values of the ID fields of the form: empty, two numeric IDs, one that is not numeric
IdValues == {"", "1", "2", "x"}
\* results of verifyCurrentPrice: -1 is null, otherwise the live price in cents
\* (unchanged, one cent more, changed)
LivePrices == {-1, 500, 501, 700}
\* the quotes the amount arithmetic is checked on
AmountPrices == {70, 100, 215, 500}
AmountDiscounts == {0, 5, 10, 50}
\* outcomes of POST /api/verify-payment: responseCode 0, 1, 2 (any other), -1 = the call throws
VerifyOutcomes == {0, 1, 2, -1}

\* ---- messages ------------------------------------------------------------
MsgNone == ""
MsgTooSmall == "Amount must be at least 0.01 USD. Please remove the promo code for small purchases."
MsgInvalidQr == "Invalid response from QR code generator"
MsgNetwork == "Network error. Please try again."
MsgVerifyFailed == "Payment verification failed. Please try again or contact support."
MsgTimeout == "Payment verification timeout. Please try again or contact support if payment was made."
MsgExpired == "QR code has expired. Please try again."
MsgPriceUnknown == "Failed to verify current price"
MsgPriceChanged == "Price has changed. Please refresh and try again."
MsgToken == "Failed to generate payment token"
MsgTelegram == "Failed to send message to Telegram"
MsgTelegramThrown == "Network Error"

VARIABLES
    variant,                 \* which build of PaymentModal the app uses
    \* App
    showCheckout,            \* the modal is mounted
    paymentCooldown,
    cooldownInterval,        \* App's countdown interval: seconds to its next tick, -1 = not armed
    game, userId, serverId,  \* form.game, form.userId, form.serverId
    validationResult,        \* <<>> = null, otherwise the IDs the successful answer held is about
    validationCall,          \* <<>> = no validation under way (validating is false), otherwise its IDs
    orderFormat,
    price,                   \* form.product.price in cents, -1: form.product is null
    discountPercent,
    \* React state of the modal instance
    status, errorMessage, qrCode, md5Hash, isProcessing, hasSentToTelegram,
    autoCheckEnabled, checkCount, nextCheckTime, qrCooldown, transactionId,
    finalAmountMemo,         \* the value useMemo holds for finalAmount, in cents
    sinceQrGeneration,       \* Date.now() - lastQrGeneration in seconds, saturated; -1: lastQrGeneration = 0
    \* refs: TRUE = holds a timer id (possibly of a timer that is gone), FALSE = null
    verificationIntervalRef, qrTimeoutRef, checkCountdownRef,
    verificationTimeoutRef, cooldownIntervalRef,
    effectCleanup,           \* the last run of the polling effect returned a cleanup function
    timers,                  \* armed timers of the modal instance
    khqrCall,                \* POST /api/khqr: how many are outstanding, seconds since the last was issued
    verifyCalls,             \* verifyPayment invocations suspended at an await
    posts,                   \* requests issued by this modal instance
    generationFailed         \* a POST /api/khqr of this modal instance has failed

appVars == <<showCheckout, paymentCooldown, cooldownInterval>>
formVars == <<game, userId, serverId, validationResult, validationCall, orderFormat>>
vars == <<variant, showCheckout, paymentCooldown, cooldownInterval,
          game, userId, serverId, validationResult, validationCall, orderFormat,
          price, discountPercent,
          status, errorMessage, qrCode, md5Hash, isProcessing, hasSentToTelegram,
          autoCheckEnabled, checkCount, nextCheckTime, qrCooldown, transactionId,
          finalAmountMemo, sinceQrGeneration,
          verificationIntervalRef, qrTimeoutRef, checkCountdownRef,
          verificationTimeoutRef, cooldownIntervalRef,
          effectCleanup, timers, khqrCall, verifyCalls, posts, generationFailed>>

Min(a, b) == IF a < b THEN a ELSE b

\* ---- the modal instance as one value -------------------------------------
World ==
    [variant |-> variant, showCheckout |-> showCheckout,
     price |-> price, discountPercent |-> discountPercent,
     status |-> status, errorMessage |-> errorMessage, qrCode |-> qrCode,
     md5Hash |-> md5Hash, isProcessing |-> isProcessing,
     hasSentToTelegram |-> hasSentToTelegram,
     autoCheckEnabled |-> autoCheckEnabled, checkCount |-> checkCount,
     nextCheckTime |-> nextCheckTime, qrCooldown |-> qrCooldown,
     transactionId |-> transactionId,
     finalAmount |-> finalAmountMemo,
     sinceQrGeneration |-> sinceQrGeneration,
     verificationIntervalRef |-> verificationIntervalRef,
     qrTimeoutRef |-> qrTimeoutRef, checkCountdownRef |-> checkCountdownRef,
     verificationTimeoutRef |-> verificationTimeoutRef,
     cooldownIntervalRef |-> cooldownIntervalRef,
     effectCleanup |-> effectCleanup, timers |-> timers,
     khqrCall |-> khqrCall, verifyCalls |-> verifyCalls, posts |-> posts,
     generationFailed |-> generationFailed]

\* the next state of the modal instance is w; variant and App are set by the action
Apply(w) ==
    /\ price' = w.price
    /\ discountPercent' = w.discountPercent
    /\ status' = w.status
    /\ errorMessage' = w.errorMessage
    /\ qrCode' = w.qrCode
    /\ md5Hash' = w.md5Hash
    /\ isProcessing' = w.isProcessing
    /\ hasSentToTelegram' = w.hasSentToTelegram
    /\ autoCheckEnabled' = w.autoCheckEnabled
    /\ checkCount' = w.checkCount
    /\ nextCheckTime' = w.nextCheckTime
    /\ qrCooldown' = w.qrCooldown
    /\ transactionId' = w.transactionId
    /\ finalAmountMemo' = w.finalAmount
    /\ sinceQrGeneration' = w.sinceQrGeneration
    /\ verificationIntervalRef' = w.verificationIntervalRef
    /\ qrTimeoutRef' = w.qrTimeoutRef
    /\ checkCountdownRef' = w.checkCountdownRef
    /\ verificationTimeoutRef' = w.verificationTimeoutRef
    /\ cooldownIntervalRef' = w.cooldownIntervalRef
    /\ effectCleanup' = w.effectCleanup
    /\ timers' = w.timers
    /\ khqrCall' = w.khqrCall
    /\ verifyCalls' = w.verifyCalls
    /\ posts' = w.posts
    /\ generationFailed' = w.generationFailed

\* values a render captures for verifyPayment / startRandomInterval
Closure(w) ==
    [md5Hash |-> w.md5Hash, isProcessing |-> w.isProcessing,
     status |-> w.status, hasSentToTelegram |-> w.hasSentToTelegram]

\* closure field of the timers whose callback reads no captured state
NoClosure ==
    [md5Hash |-> FALSE, isProcessing |-> FALSE,
     status |-> "pending", hasSentToTelegram |-> FALSE]

\* kinds: "first" (firstCheckTimeout), "interval" (verificationIntervalRef),
\* "ceiling" (verificationTimeoutRef), "qr" (qrTimeoutRef),
\* "countdown" (checkCountdownRef), "cooldown" (cooldownIntervalRef).
\* ref: the ref of that kind currently holds this timer.
Timer(kind, left, ref, cl) == [kind |-> kind, left |-> left, ref |-> ref, cl |-> cl]

\* the ref of `kind` is overwritten: the timer it held stays armed but is no longer held
Unref(ts, kind) ==
    {IF t.kind = kind THEN [t EXCEPT !.ref = FALSE] ELSE t : t \in ts}

\* clearTimeout / clearInterval of the timer held by the ref of `kind`
ClearRef(ts, kind) == {t \in ts : ~(t.kind = kind /\ t.ref)}

\* ---- IEEE 754 double-precision arithmetic -----------------------------------
\* JavaScript numbers are binary64 values. A natural number of any size is a
\* sequence of limbs in base LimbBase, lowest limb first, without leading
\* zeros (<<>> is 0). A non-negative double is [m, e], the value m * 2^e with
\* 2^52 <= m < 2^53, or m = <<>> for 0. All amounts of the program are far
\* from the subnormal and the overflow range.
LimbBits == 15
LimbBase == 32768
MantissaBits == 53

RECURSIVE Pow2(_)
Pow2(k) == IF k = 0 THEN 1 ELSE 2 * Pow2(k - 1)

RECURSIVE Norm(_)
Norm(n) ==
    IF n = <<>> THEN n
    ELSE IF n[Len(n)] = 0 THEN Norm(SubSeq(n, 1, Len(n) - 1))
    ELSE n

RECURSIVE MulCarry(_, _, _, _)
MulCarry(n, k, i, carry) ==
    IF i > Len(n) THEN (IF carry = 0 THEN <<>> ELSE <<carry>>)
    ELSE LET v == n[i] * k + carry
         IN  <<v % LimbBase>> \o MulCarry(n, k, i + 1, v \div LimbBase)

\* n * k for a small natural k
MulSmall(n, k) == Norm(MulCarry(n, k, 1, 0))

RECURSIVE DivStep(_, _, _, _)
DivStep(n, k, i, rem) ==
    IF i = 0 THEN [q |-> <<>>, r |-> rem]
    ELSE LET v == rem * LimbBase + n[i]
             rest == DivStep(n, k, i - 1, v % k)
         IN  [q |-> rest.q \o <<v \div k>>, r |-> rest.r]

\* quotient and remainder of n by a small natural k
DivSmall(n, k) ==
    LET d == DivStep(n, k, Len(n), 0) IN [q |-> Norm(d.q), r |-> d.r]

RECURSIVE Inc(_)
\* n + 1
Inc(n) ==
    IF n = <<>> THEN <<1>>
    ELSE IF n[1] + 1 < LimbBase THEN <<n[1] + 1>> \o Tail(n)
    ELSE <<0>> \o Inc(Tail(n))

RECURSIVE SubBorrow(_, _, _, _)
SubBorrow(a, b, i, borrow) ==
    IF i > Len(a) THEN <<>>
    ELSE LET v == a[i] - (IF i <= Len(b) THEN b[i] ELSE 0) - borrow
         IN  IF v < 0 THEN <<v + LimbBase>> \o SubBorrow(a, b, i + 1, 1)
             ELSE <<v>> \o SubBorrow(a, b, i + 1, 0)

\* a - b for a >= b
SubNat(a, b) == Norm(SubBorrow(a, b, 1, 0))

RECURSIVE CmpFrom(_, _, _)
CmpFrom(a, b, i) ==
    IF i = 0 THEN 0
    ELSE IF a[i] # b[i] THEN (IF a[i] < b[i] THEN -1 ELSE 1)
    ELSE CmpFrom(a, b, i - 1)

\* -1, 0, 1 as a < b, a = b, a > b
CmpNat(a, b) ==
    IF Len(a) # Len(b) THEN (IF Len(a) < Len(b) THEN -1 ELSE 1)
    ELSE CmpFrom(a, b, Len(a))

RECURSIVE Bits(_)
Bits(x) == IF x = 0 THEN 0 ELSE 1 + Bits(x \div 2)

BitLen(n) == IF n = <<>> THEN 0 ELSE (Len(n) - 1) * LimbBits + Bits(n[Len(n)])

\* n * 2^s
Shl(n, s) ==
    IF n = <<>> THEN n
    ELSE [i \in 1..(s \div LimbBits) |-> 0] \o MulSmall(n, Pow2(s % LimbBits))

\* floor(n / 2^t)
Shr(n, t) ==
    LET q == t \div LimbBits IN
    IF q >= Len(n) THEN <<>>
    ELSE DivSmall(SubSeq(n, q + 1, Len(n)), Pow2(t % LimbBits)).q

ToInt(n) == IF n = <<>> THEN 0 ELSE IF Len(n) = 1 THEN n[1] ELSE n[1] + LimbBase * n[2]

\* The double nearest to (M + f) * 2^e, ties to even, where 0 <= f < 1 and
\* inexact tells f > 0 (M has at least 55 bits when inexact).
RoundToDouble(M, inexact, e) ==
    LET L == BitLen(M) IN
    IF M = <<>> THEN [m |-> <<>>, e |-> 0]
    ELSE IF L <= MantissaBits THEN [m |-> Shl(M, MantissaBits - L), e |-> e - (MantissaBits - L)]
    ELSE LET t == L - MantissaBits
             Q == Shr(M, t)
             R == SubNat(M, Shl(Q, t))
             c == CmpNat(R, Shl(<<1>>, t - 1))
             up == c > 0 \/ (c = 0 /\ (inexact \/ Q[1] % 2 = 1))
             Q1 == IF up THEN Inc(Q) ELSE Q
         IN  IF BitLen(Q1) > MantissaBits
             THEN [m |-> Shr(Q1, 1), e |-> e + t + 1]
             ELSE [m |-> Q1, e |-> e + t]

\* x * k for a double x and a small natural k
MulDouble(x, k) == RoundToDouble(MulSmall(x.m, k), FALSE, x.e)

\* x / k for a double x and a small natural k
DivDouble(x, k) ==
    LET d == DivSmall(Shl(x.m, LimbBits), k)
    IN  RoundToDouble(d.q, d.r # 0, x.e - LimbBits)

\* the double nearest to n / k (a decimal literal or JSON number n/k)
DoubleOf(n, k) ==
    DivDouble(RoundToDouble(Norm(<<n % LimbBase, n \div LimbBase>>), FALSE, 0), k)

\* -1, 0, 1 as x < y, x = y, x > y
CmpDouble(x, y) ==
    IF x.m = <<>> \/ y.m = <<>>
    THEN (IF x.m = y.m THEN 0 ELSE IF x.m = <<>> THEN -1 ELSE 1)
    ELSE LET e == IF x.e < y.e THEN x.e ELSE y.e
         IN  CmpNat(Shl(x.m, x.e - e), Shl(y.m, y.e - e))

\* x - y for doubles x >= y
SubDouble(x, y) ==
    IF y.m = <<>> THEN x
    ELSE LET e == IF x.e < y.e THEN x.e ELSE y.e
         IN  RoundToDouble(SubNat(Shl(x.m, x.e - e), Shl(y.m, y.e - e)), FALSE, e)

\* Math.abs(x - y)
AbsDiff(x, y) == IF CmpDouble(x, y) >= 0 THEN SubDouble(x, y) ELSE SubDouble(y, x)

\* Math.round(x) for a double x >= 0: floor(x + 0.5), the halves go up
MathRound(x) ==
    IF x.m = <<>> THEN 0
    ELSE IF x.e >= 0 THEN ToInt(Shl(x.m, x.e))
    ELSE LET t == 0 - x.e
             Q == Shr(x.m, t)
             R == SubNat(x.m, Shl(Q, t))
         IN  IF CmpNat(Shl(R, 1), Shl(<<1>>, t)) >= 0 THEN ToInt(Q) + 1 ELSE ToInt(Q)

\* ---- amounts ----------------------------------------------------------------
\* A price p of the model is in whole cents and stands for the number p / 100
\* of the product record. An amount that Math.round(x * 100) / 100 produced is
\* named by the integer n = Math.round(x * 100); it is the double n / 100.

\* round-half-up of x / 100 in exact arithmetic, for a natural x
RoundDiv100(x) == (x + 50) \div 100

\* finalAmount: discount = price * discountPercent / 100; amount = price - discount;
\* Math.round(amount * 100) / 100   (the discount is never above the price)
finalAmount(p, d) ==
    IF p = 0 THEN 0
    ELSE LET productPrice == DoubleOf(p, 100)
             discount == DivDouble(MulDouble(productPrice, d), 100)
             amount == SubDouble(productPrice, discount)
         IN  MathRound(MulDouble(amount, 100))

\* finalAmount for every price and discount the model draws from
FinalAmountOf ==
    [q \in (Prices \cup AmountPrices) \X (Discounts \cup AmountDiscounts) |->
        finalAmount(q[1], q[2])]

\* if (!form.product?.price) return 0
FinalAmount(p, d) == IF p <= 0 THEN 0 ELSE FinalAmountOf[<<p, d>>]

\* expectedFinalAmount = Math.round(currentPrice * (100 - discountPercent) / 100 * 100) / 100
ExpectedFinalAmount(currentPrice, d) ==
    MathRound(MulDouble(DivDouble(MulDouble(DoubleOf(currentPrice, 100), 100 - d), 100), 100))

\* the price comparison that lets every difference pass
PriceChangedNever(expected, final) == FALSE

\* Math.abs(expectedFinalAmount - finalAmount) > 0.01
PriceChanged(expected, final) ==
    CmpDouble(AbsDiff(DoubleOf(expected, 100), DoubleOf(final, 100)), DoubleOf(1, 100)) > 0

\* the amount test with a wrong threshold (finalAmount < 0)
TooSmallZeroAllowed(amount) == amount < 0

\* finalAmount < 0.01
TooSmall(amount) == amount < MIN_AMOUNT

\* now - lastQrGeneration < QR_COOLDOWN_PERIOD * 1000
InCooldown(since) == since # -1 /\ since < QR_COOLDOWN_PERIOD

\* Math.ceil((QR_COOLDOWN_PERIOD * 1000 - (now - lastQrGeneration)) / 1000)
RemainingCooldown(since) == QR_COOLDOWN_PERIOD - since

\* ---- cleanup -------------------------------------------------------------
cleanup(w) ==
    [w EXCEPT
        !.timers = ClearRef(ClearRef(ClearRef(ClearRef(ClearRef(@,
                       "interval"), "qr"), "countdown"), "ceiling"), "cooldown"),
        !.verificationIntervalRef = FALSE,
        !.qrTimeoutRef = FALSE,
        !.checkCountdownRef = FALSE,
        !.verificationTimeoutRef = FALSE,
        !.cooldownIntervalRef = FALSE]

\* ---- timers started by the modal ------------------------------------------
startCheckCountdown(w) ==
    [w EXCEPT
        !.nextCheckTime = COUNTDOWN_FROM,
        !.timers = Unref(@, "countdown") \cup {Timer("countdown", 1, TRUE, NoClosure)},
        !.checkCountdownRef = TRUE]

startQrCooldown(w) ==
    [w EXCEPT
        !.qrCooldown = QR_COOLDOWN_PERIOD,
        !.timers = Unref(@, "cooldown") \cup {Timer("cooldown", 1, TRUE, NoClosure)},
        !.cooldownIntervalRef = TRUE]

\* startRandomInterval of the render whose closure is cl
startRandomInterval(w, cl) ==
    LET a == startCheckCountdown(w) IN
    [a EXCEPT
        !.timers = Unref(Unref(@, "interval"), "ceiling") \cup
                   {Timer("interval", CHECK_INTERVAL, TRUE, cl),
                    Timer("ceiling", VERIFICATION_TIMEOUT, TRUE, NoClosure)},
        !.verificationIntervalRef = TRUE,
        !.verificationTimeoutRef = TRUE]

\* ---- verifyPayment, up to its first await ---------------------------------
\* the guard of verifyPayment without the in-flight flag
VerifyBlockedNoFlag(cl) == ~cl.md5Hash \/ cl.status = "success"

\* if (!md5Hash || isProcessing || status === 'success') return false
VerifyBlocked(cl) == ~cl.md5Hash \/ cl.isProcessing \/ cl.status = "success"

verifyPayment(w, cl) ==
    IF VerifyBlocked(cl) THEN w
    ELSE [w EXCEPT
            !.isProcessing = TRUE,
            !.verifyCalls = Append(@, [pc |-> "verify", cl |-> cl, chain |-> FALSE, age |-> 0, live |-> -1]),
            !.posts.verify = @ + 1]

\* ---- generateKHQR, up to its await ----------------------------------------
\* the first guard of generateKHQR without the in-flight flag
GenerateBlockedNoFlag(w) ==
    TooSmall(w.finalAmount) \/ w.qrCode \/ w.qrCooldown > 0

\* if (isProcessing || finalAmount < 0.01 || qrCode || qrCooldown > 0) return
GenerateBlocked(w) ==
    w.isProcessing \/ TooSmall(w.finalAmount)
        \/ w.qrCode \/ w.qrCooldown > 0

generateKHQR(w) ==
    IF GenerateBlocked(w)
    THEN w
    ELSE IF InCooldown(w.sinceQrGeneration)
    THEN \* variant B: setQrCooldown is not defined in the component, the call throws
         IF w.variant = "A"
         THEN startQrCooldown([w EXCEPT !.qrCooldown = RemainingCooldown(w.sinceQrGeneration)])
         ELSE w
    ELSE LET s == [w EXCEPT !.status = "checking", !.errorMessage = MsgNone] IN
         \* variant B: setIsProcessing is not defined in the component; the call
         \* throws outside the try block and generateKHQR ends here
         IF w.variant = "B" THEN s
         ELSE IF TooSmall(w.finalAmount)
         THEN [s EXCEPT !.status = "error", !.errorMessage = MsgTooSmall]
         ELSE [s EXCEPT
                 !.isProcessing = TRUE,
                 !.khqrCall = [pending |-> @.pending + 1, since |-> 0],
                 !.posts.khqr = Min(@ + 1, MaxKhqrCount)]

\* ---- render and effects ---------------------------------------------------
\* the React state of the instance (what a render depends on)
ReactState(w) ==
    <<w.status, w.errorMessage, w.qrCode, w.md5Hash, w.isProcessing,
      w.hasSentToTelegram, w.autoCheckEnabled, w.checkCount, w.nextCheckTime,
      w.qrCooldown, w.transactionId>>

\* dependencies of the effect that calls generateKHQR; lastQrGeneration is only
\* ever set together with qrCode
GenerateDeps(w) ==
    <<w.finalAmount, w.isProcessing, w.qrCode, w.qrCooldown>>

\* The polling effect. Its dependency verifyPayment is a new function in every
\* render (sendToTelegram is not memoized), so the effect runs after every
\* render: first the cleanup function its previous run returned, then its body.
PollingEffect(w) ==
    IF w.variant = "B" THEN w
    ELSE
    LET c == IF w.effectCleanup
             THEN [w EXCEPT
                     !.timers = ClearRef(ClearRef({t \in @ : t.kind # "first"},
                                                  "interval"), "qr"),
                     !.verificationIntervalRef = FALSE,
                     !.qrTimeoutRef = FALSE]
             ELSE w
    IN  IF c.md5Hash /\ ~c.verificationIntervalRef
        THEN LET s == [c EXCEPT !.autoCheckEnabled = TRUE] IN
             [s EXCEPT
                !.timers = Unref(@, "qr") \cup
                           {Timer("first", FIRST_CHECK_DELAY, FALSE, Closure(s)),
                            Timer("qr", QR_EXPIRY, TRUE, NoClosure)},
                !.qrTimeoutRef = TRUE,
                !.effectCleanup = TRUE]
        ELSE [c EXCEPT !.effectCleanup = FALSE]

\* a render with changed state, followed by its effects
Render(old, new) ==
    PollingEffect(IF GenerateDeps(old) # GenerateDeps(new) THEN generateKHQR(new) ELSE new)

\* w with the React state of old (updates of an unmounted component are dropped)
Frozen(old, w) ==
    [w EXCEPT
        !.status = old.status, !.errorMessage = old.errorMessage,
        !.qrCode = old.qrCode, !.md5Hash = old.md5Hash,
        !.isProcessing = old.isProcessing,
        !.hasSentToTelegram = old.hasSentToTelegram,
        !.autoCheckEnabled = old.autoCheckEnabled, !.checkCount = old.checkCount,
        !.nextCheckTime = old.nextCheckTime, !.qrCooldown = old.qrCooldown,
        !.transactionId = old.transactionId,
        !.sinceQrGeneration = old.sinceQrGeneration]

\* the end of a handler that turned old into new
Commit(old, new) ==
    IF ~old.showCheckout THEN Frozen(old, new)
    ELSE IF ReactState(new) = ReactState(old) THEN new
    ELSE Render(old, new)

\* ---- construction ---------------------------------------------------------
\* a modal instance as useState / useRef / useMemo construct it in the first
\* render, with the props p, d
Fresh(v, p, d) ==
    [variant |-> v, showCheckout |-> TRUE,
     price |-> p, discountPercent |-> d,
     status |-> "pending", errorMessage |-> MsgNone, qrCode |-> FALSE,
     md5Hash |-> FALSE, isProcessing |-> FALSE, hasSentToTelegram |-> FALSE,
     autoCheckEnabled |-> FALSE, checkCount |-> 0,
     nextCheckTime |-> COUNTDOWN_FROM, qrCooldown |-> 0, transactionId |-> 0,
     finalAmount |-> FinalAmount(p, d),
     sinceQrGeneration |-> -1,
     verificationIntervalRef |-> FALSE, qrTimeoutRef |-> FALSE,
     checkCountdownRef |-> FALSE, verificationTimeoutRef |-> FALSE,
     cooldownIntervalRef |-> FALSE,
     effectCleanup |-> FALSE, timers |-> {},
     khqrCall |-> [pending |-> 0, since |-> 0],
     verifyCalls |-> <<>>,
     posts |-> [khqr |-> 0, verify |-> 0, telegram |-> 0],
     generationFailed |-> FALSE]

Init ==
    /\ variant \in Variants
    /\ showCheckout = FALSE
    /\ paymentCooldown = 0
    /\ cooldownInterval = -1
    /\ game = "freefire" /\ userId = "1" /\ serverId = ""
    /\ validationResult = <<>> /\ validationCall = <<>>
    /\ orderFormat = <<>>
    /\ price = -1 /\ discountPercent = 0
    /\ status = "pending" /\ errorMessage = MsgNone
    /\ qrCode = FALSE /\ md5Hash = FALSE
    /\ isProcessing = FALSE /\ hasSentToTelegram = FALSE
    /\ autoCheckEnabled = FALSE /\ checkCount = 0
    /\ nextCheckTime = COUNTDOWN_FROM /\ qrCooldown = 0 /\ transactionId = 0
    /\ finalAmountMemo = 0
    /\ sinceQrGeneration = -1
    /\ verificationIntervalRef = FALSE /\ qrTimeoutRef = FALSE
    /\ checkCountdownRef = FALSE /\ verificationTimeoutRef = FALSE
    /\ cooldownIntervalRef = FALSE
    /\ effectCleanup = FALSE /\ timers = {}
    /\ khqrCall = [pending |-> 0, since |-> 0]
    /\ verifyCalls = <<>>
    /\ posts = [khqr |-> 0, verify |-> 0, telegram |-> 0]
    /\ generationFailed = FALSE

\* ---- App: the order form ----------------------------------------------------
\* The form is reachable while the modal is closed (the modal covers the page).
\* formErrors is not part of the model.

\* /^\d+$/.test(id)
Numeric(id) == id \in {"1", "2"}

\* the modal and the cooldown of App are left alone
ModalUnchanged ==
    Apply(World) /\ UNCHANGED <<variant, showCheckout, paymentCooldown, cooldownInterval>>

\* onSelect of ProductList: setForm(prev => ({ ...prev, product }))
SelectProduct(prices) ==
    /\ ~showCheckout
    /\ \E p \in prices : Apply([World EXCEPT !.price = p])
    /\ UNCHANGED <<variant, showCheckout, paymentCooldown, cooldownInterval>>
    /\ UNCHANGED formVars

selectProduct == SelectProduct(Prices)

\* handlePromoCode(discount) / clearPromoCode()
PromoCode(discounts) ==
    /\ ~showCheckout
    /\ \E d \in discounts : Apply([World EXCEPT !.discountPercent = d])
    /\ UNCHANGED <<variant, showCheckout, paymentCooldown, cooldownInterval>>
    /\ UNCHANGED formVars

handlePromoCode == PromoCode(Discounts)

\* a game tile is clicked: setForm(prev => ({ ...prev, game }))
selectGame ==
    /\ ~showCheckout
    /\ \E g \in {"mlbb", "freefire"} : game' = g
    /\ ModalUnchanged
    /\ UNCHANGED <<userId, serverId, validationResult, validationCall, orderFormat>>

\* onChange of the User ID field
editUserId ==
    /\ ~showCheckout
    /\ \E id \in IdValues : userId' = id
    /\ validationResult' = <<>>
    /\ ModalUnchanged
    /\ UNCHANGED <<game, serverId, validationCall, orderFormat>>

\* onChange of the Server ID field (rendered for game 'mlbb')
editServerId ==
    /\ ~showCheckout
    /\ game = "mlbb"
    /\ \E id \in IdValues : serverId' = id
    /\ validationResult' = <<>>
    /\ ModalUnchanged
    /\ UNCHANGED <<game, userId, validationCall, orderFormat>>

clearSavedInfo ==
    /\ ~showCheckout
    /\ userId # "" \/ serverId # ""
    /\ userId' = "" /\ serverId' = ""
    /\ validationResult' = <<>>
    /\ Apply([World EXCEPT !.price = -1])
    /\ UNCHANGED <<variant, showCheckout, paymentCooldown, cooldownInterval>>
    /\ UNCHANGED <<game, validationCall, orderFormat>>

\* the Check ID button (disabled without IDs and while validating); the
\* request is sent for the IDs in the form
validateAccount ==
    /\ ~showCheckout
    /\ userId # "" /\ serverId # "" /\ game = "mlbb"
    /\ validationCall = <<>>
    /\ IF Numeric(userId) /\ Numeric(serverId)
       THEN /\ validationCall' = <<userId, serverId>>
            /\ validationResult' = <<>>
       ELSE UNCHANGED <<validationCall, validationResult>>
    /\ ModalUnchanged
    /\ UNCHANGED <<game, userId, serverId, orderFormat>>

\* the validation request answers: account found, or not found / failed
ValidationResponds ==
    /\ validationCall # <<>>
    /\ \E success \in BOOLEAN :
         validationResult' = IF success THEN validationCall ELSE validationResult
    /\ validationCall' = <<>>
    /\ ModalUnchanged
    /\ UNCHANGED <<game, userId, serverId, orderFormat>>

\* ---- App: opening and closing the modal -----------------------------------
\* a cooldown that never blocks
InPaymentCooldownNever == FALSE

\* if (paymentCooldown > 0) return
InPaymentCooldown == paymentCooldown > 0

\* Object.keys(errors).length > 0
FormErrors ==
    \/ userId = "" \/ ~Numeric(userId)
    \/ game = "mlbb" /\ (serverId = "" \/ ~Numeric(serverId))
    \/ price = -1

\* a validation that is never asked for
NotValidatedNever == FALSE

\* form.game === 'mlbb' && !validationResult?.success
NotValidated == game = "mlbb" /\ validationResult = <<>>

\* `${form.userId} ${form.serverId} ${productIdentifier}` / `${form.userId} 0 ${productIdentifier}`
OrderFormat == <<userId, IF game = "mlbb" THEN serverId ELSE "0", price>>

\* handleSubmit; when it accepts the form the modal is mounted with a fresh
\* state and its mount effects run (the polling effect, then generateKHQR)
handleSubmit ==
    /\ ~showCheckout
    /\ IF InPaymentCooldown \/ FormErrors \/ NotValidated
       THEN UNCHANGED vars
       ELSE /\ LET w0 == Fresh(variant, price, discountPercent) IN
               Apply(Commit(w0, generateKHQR(PollingEffect(w0))))
            /\ orderFormat' = OrderFormat
            /\ showCheckout' = TRUE
            /\ UNCHANGED <<variant, paymentCooldown, cooldownInterval>>
            /\ UNCHANGED <<game, userId, serverId, validationResult, validationCall>>

\* The modal is unmounted: the effect cleanups run (cleanup, and the cleanup
\* function of the polling effect). The state and the refs of the instance
\* are out of reach from then on: they are put back to their initial values
\* (the props stay what the form holds; the memo is computed anew by the next
\* instance), except sinceQrGeneration, which goes on measuring the time since
\* the last generation. Armed timers and pending calls keep running.
Unmount(w) ==
    LET c == cleanup(w)
        d == IF c.effectCleanup
             THEN [c EXCEPT !.timers = {t \in @ : t.kind # "first"}]
             ELSE c
    IN  [Fresh(w.variant, w.price, w.discountPercent) EXCEPT
            !.showCheckout = FALSE,
            !.finalAmount = 0,
            !.sinceQrGeneration = d.sinceQrGeneration,
            !.timers = d.timers,
            !.khqrCall = d.khqrCall,
            !.verifyCalls = d.verifyCalls,
            !.posts = d.posts]

\* handleClose / handleContinueShopping, then handleClosePayment and
\* startPaymentCooldown in App
handleClose ==
    /\ showCheckout
    /\ Apply(Unmount(cleanup(World)))
    /\ showCheckout' = FALSE
    /\ paymentCooldown' = PAYMENT_COOLDOWN
    /\ cooldownInterval' = 1
    /\ UNCHANGED variant
    /\ UNCHANGED formVars

\* the interval of startPaymentCooldown ticks
PaymentCooldownTicks ==
    /\ cooldownInterval = 0
    /\ IF paymentCooldown <= 1
       THEN paymentCooldown' = 0 /\ cooldownInterval' = -1
       ELSE paymentCooldown' = paymentCooldown - 1 /\ cooldownInterval' = 1
    /\ Apply(World)
    /\ UNCHANGED <<variant, showCheckout>>
    /\ UNCHANGED formVars

\* ---- timer callbacks of the modal -----------------------------------------
Due(kind) == {t \in timers : t.kind = kind /\ t.left = 0}

\* an action of the modal instance that turns World into w
Step(w) ==
    /\ Apply(Commit(World, w))
    /\ UNCHANGED <<variant, showCheckout, paymentCooldown, cooldownInterval>>
    /\ UNCHANGED formVars

\* firstCheckTimeout: verifyPayment(); startRandomInterval();
\* (explored while the instance has issued fewer than limit attempts)
FirstCheck(limit) ==
    \E t \in Due("first") :
        /\ VerifyBlocked(t.cl) \/ posts.verify < limit
        /\ LET w == [World EXCEPT !.timers = @ \ {t}] IN
           Step(startRandomInterval(verifyPayment(w, t.cl), t.cl))

FirstCheckFires == FirstCheck(MaxPolls)

\* the end of a verifyPayment invocation (finally), and what awaited it
Finish(w, i) ==
    LET c == w.verifyCalls[i]
        r == [w EXCEPT
                !.isProcessing = FALSE,
                !.verifyCalls = SubSeq(@, 1, i - 1) \o SubSeq(@, i + 1, Len(@))]
    IN  IF c.chain THEN startRandomInterval(r, c.cl) ELSE r

\* the timeout of startRandomInterval:
\* if (!isProcessing) { setCheckCount(prev => prev + 1); await verifyPayment(); } startRandomInterval();
IntervalFires ==
    \E t \in Due("interval") :
        LET w == [World EXCEPT !.timers = @ \ {t}] IN
        IF t.cl.isProcessing \/ VerifyBlocked(t.cl)
        THEN Step(startRandomInterval(
                    IF t.cl.isProcessing THEN w ELSE [w EXCEPT !.checkCount = @ + 1],
                    t.cl))
        ELSE /\ posts.verify < MaxPolls
             /\ LET v == verifyPayment([w EXCEPT !.checkCount = @ + 1], t.cl) IN
                Step([v EXCEPT !.verifyCalls[Len(v.verifyCalls)].chain = TRUE])

\* the interval of startCheckCountdown
CountdownTicks ==
    \E t \in Due("countdown") :
        IF ~showCheckout
        THEN Step([World EXCEPT !.timers = (@ \ {t}) \cup {[t EXCEPT !.left = 1]}])
        ELSE IF nextCheckTime <= 1
        THEN Step([World EXCEPT !.timers = @ \ {t}, !.nextCheckTime = COUNTDOWN_FROM])
        ELSE Step([World EXCEPT !.timers = (@ \ {t}) \cup {[t EXCEPT !.left = 1]},
                                !.nextCheckTime = @ - 1])

\* the interval of startQrCooldown
QrCooldownTicks ==
    \E t \in Due("cooldown") :
        IF ~showCheckout
        THEN Step([World EXCEPT !.timers = (@ \ {t}) \cup {[t EXCEPT !.left = 1]}])
        ELSE IF qrCooldown <= 1
        THEN Step([World EXCEPT !.timers = @ \ {t}, !.qrCooldown = 0])
        ELSE Step([World EXCEPT !.timers = (@ \ {t}) \cup {[t EXCEPT !.left = 1]},
                                !.qrCooldown = @ - 1])

\* verificationTimeoutRef fires (VERIFICATION_TIMEOUT after a startRandomInterval)
CeilingFires ==
    \E t \in Due("ceiling") :
        Step([cleanup([World EXCEPT !.timers = @ \ {t}]) EXCEPT
                !.autoCheckEnabled = FALSE,
                !.status = "error",
                !.errorMessage = MsgTimeout])

\* qrTimeoutRef fires (QR_EXPIRY after the last run of the polling effect)
QrExpires ==
    \E t \in Due("qr") :
        Step([cleanup([World EXCEPT !.timers = @ \ {t}]) EXCEPT
                !.autoCheckEnabled = FALSE,
                !.status = "error",
                !.errorMessage = MsgExpired])

\* ---- POST /api/khqr answers -------------------------------------------------
\* outcome "ok": 200/201 with success, qrImage and md5; "invalid": 200/201 with
\* one of them missing; "failed": the request throws (network error, other status)
KhqrOutcomes == {"ok", "invalid", "failed"}

\* the answer without setMd5Hash
StoreCodeOnly(w, since) == [w EXCEPT !.qrCode = TRUE, !.sinceQrGeneration = since]

\* setQrCode(qrImage); setMd5Hash(md5); setLastQrGeneration(now)
StoreCode(w, since) ==
    [w EXCEPT !.qrCode = TRUE, !.md5Hash = TRUE, !.sinceQrGeneration = since]

KhqrAnswers(outcomes) ==
    /\ khqrCall.pending > 0
    /\ khqrCall.since <= MaxDelay
    /\ \E outcome \in outcomes :
         LET w == [World EXCEPT !.khqrCall = [pending |-> @.pending - 1, since |-> 0]]
             r == CASE outcome = "ok" -> StoreCode(w, khqrCall.since)
                    [] outcome = "invalid" ->
                         [w EXCEPT !.status = "error", !.errorMessage = MsgInvalidQr,
                                   !.generationFailed = showCheckout]
                    [] OTHER ->
                         [w EXCEPT !.status = "error", !.errorMessage = MsgNetwork,
                                   !.generationFailed = showCheckout]
         IN  Step([r EXCEPT !.isProcessing = FALSE])

KhqrResponds == KhqrAnswers(KhqrOutcomes)

\* ---- verifyPayment after its awaits ---------------------------------------
\* the invocations whose call at pc can answer d seconds after it was issued
CallsWithin(pc, d) ==
    {i \in 1..Len(verifyCalls) : verifyCalls[i].pc = pc /\ verifyCalls[i].age <= d}

Calls(pc) == CallsWithin(pc, MaxDelay)

\* the invocation i goes on to its next await
Await(w, i, pc) == [w EXCEPT !.verifyCalls[i].pc = pc, !.verifyCalls[i].age = 0]

\* the failure branch of verifyPayment without its setErrorMessage
VerificationFailedSilent(w) == [cleanup(w) EXCEPT !.status = "error"]

VerificationFailed(w) ==
    [cleanup(w) EXCEPT !.status = "error", !.errorMessage = MsgVerifyFailed]

\* the first POST /api/verify-payment answers, with one of the given outcomes
VerifyAnswersWithin(outcomes, d) ==
    \E i \in CallsWithin("verify", d) : \E outcome \in outcomes :
        LET c == verifyCalls[i] IN
        CASE outcome = 0 ->
                IF c.cl.status # "success"
                THEN Step(Await([cleanup(World) EXCEPT !.status = "success"], i, "recheck"))
                ELSE Step(Finish(cleanup(World), i))
          [] outcome = 1 -> Step(Finish(World, i))
          [] OTHER -> Step(Finish(VerificationFailed(World), i))

VerifyAnswers(outcomes) == VerifyAnswersWithin(outcomes, MaxDelay)

VerifyResponds == VerifyAnswers(VerifyOutcomes)

\* if (hasSentToTelegram) return   (sendToTelegram of the same render)
SendBlocked(cl) == cl.hasSentToTelegram

\* the second POST /api/verify-payment answers; with 'confirmed' sendToTelegram
\* starts and verifyCurrentPrice reads the live price of the product
RecheckAnswers(outcomes, prices) ==
    \E i \in Calls("recheck") : \E outcome \in outcomes :
        LET c == verifyCalls[i] IN
        CASE outcome = 0 ->
                IF ~c.cl.hasSentToTelegram /\ ~SendBlocked(c.cl)
                THEN \E currentPrice \in prices :
                        Step(Await([World EXCEPT !.verifyCalls[i].live = currentPrice], i, "price"))
                ELSE Step(Finish(World, i))
          [] outcome \in {1, 2} -> Step(Finish(World, i))
          [] OTHER -> Step(Finish(VerificationFailed(World), i))

RecheckResponds == RecheckAnswers(VerifyOutcomes, LivePrices)

\* the catch block of sendToTelegram, then the finally of verifyPayment
NotificationFailed(w, i, msg) ==
    Finish([w EXCEPT !.errorMessage = msg, !.status = "error"], i)

\* verifyCurrentPrice answers with the live price it read (or null)
PriceResponds ==
    \E i \in Calls("price") :
        LET currentPrice == verifyCalls[i].live IN
        IF currentPrice = -1
        THEN Step(NotificationFailed(World, i, MsgPriceUnknown))
        ELSE IF PriceChanged(ExpectedFinalAmount(currentPrice, discountPercent),
                             finalAmountMemo)
        THEN Step(NotificationFailed(World, i, MsgPriceChanged))
        ELSE Step(Await([World EXCEPT !.transactionId = IF @ = 1 THEN 2 ELSE 1], i, "token"))

\* supabase.rpc('create_payment_token') answers; with a token POST /api/telegram is issued
TokenAnswers(oks) ==
    \E i \in Calls("token") : \E ok \in oks :
        IF ok
        THEN Step(Await([World EXCEPT !.posts.telegram = Min(@ + 1, MaxTelegramCount)],
                        i, "telegram"))
        ELSE Step(NotificationFailed(World, i, MsgToken))

TokenResponds == TokenAnswers(BOOLEAN)

TelegramOutcomes == {"ok", "rejected", "thrown"}

\* POST /api/telegram answers
TelegramAnswers(outcomes) ==
    \E i \in Calls("telegram") : \E outcome \in outcomes :
        CASE outcome = "ok" ->
                Step(Finish([World EXCEPT !.hasSentToTelegram = TRUE], i))
          [] outcome = "rejected" ->
                Step(NotificationFailed(World, i, MsgTelegram))
          [] OTHER ->
                Step(NotificationFailed(World, i, MsgTelegramThrown))

TelegramResponds == TelegramAnswers(TelegramOutcomes)

\* ---- time -----------------------------------------------------------------
\* The code compares the age of the last generation with QR_COOLDOWN_PERIOD
\* only, so the age need not be told apart beyond it; a specification that is
\* checked against the expiry time (armed up to MaxDelay after the generation
\* time) lets the age run up to ClockCap.
ClockCap == QR_EXPIRY + MaxDelay + 1

Age(a, cap) == IF a = -1 THEN -1 ELSE Min(a + 1, cap)

\* a suspended invocation one second later; once it is past the delay d its
\* call never answers and the price it read is never looked at
Older(c, d) ==
    IF c.age >= d THEN [c EXCEPT !.age = d + 1, !.live = -1]
    ELSE [c EXCEPT !.age = @ + 1]

\* one second passes; every due timer has fired (calls answer within d seconds,
\* the age of the last generation saturates at cap)
TickWithin(d, cap) ==
    /\ \A t \in timers : t.left > 0
    /\ cooldownInterval # 0
    /\ cooldownInterval' = IF cooldownInterval = -1 THEN -1 ELSE cooldownInterval - 1
    /\ Apply([World EXCEPT
                !.timers = {[t EXCEPT !.left = @ - 1] : t \in @},
                !.sinceQrGeneration = Age(@, cap),
                !.khqrCall.since = IF khqrCall.pending > 0 THEN Min(@ + 1, d + 1) ELSE @,
                !.verifyCalls = [i \in DOMAIN @ |-> Older(@[i], d)]])
    /\ UNCHANGED <<variant, showCheckout, paymentCooldown>>
    /\ UNCHANGED formVars

Tick == TickWithin(MaxDelay, QR_COOLDOWN_PERIOD)

Next ==
    \/ selectProduct
    \/ handlePromoCode
    \/ handleSubmit
    \/ handleClose
    \/ PaymentCooldownTicks
    \/ KhqrResponds
    \/ FirstCheckFires
    \/ CountdownTicks
    \/ CeilingFires
    \/ VerifyResponds
    \/ RecheckResponds
    \/ PriceResponds
    \/ TokenResponds
    \/ TelegramResponds
    \/ Tick

Spec == Init /\ [][Next]_vars

\* ---- one modal instance that stays open -------------------------------------
\* handleSubmit constructs the instance from nothing but its props, so a modal
\* opened again passes through the same states as one opened for the first
\* time: what holds of every state of an open modal can be checked without
\* handleClose.
NextOpen ==
    \/ selectProduct
    \/ handlePromoCode
    \/ handleSubmit
    \/ KhqrResponds
    \/ FirstCheckFires
    \/ CountdownTicks
    \/ CeilingFires
    \/ VerifyResponds
    \/ RecheckResponds
    \/ PriceResponds
    \/ TokenResponds
    \/ TelegramResponds
    \/ Tick

SpecOpen == Init /\ [][NextOpen]_vars

\* ---- the flow when every verification answer is 'not found' ----------------
FirstCheckFiresNotFound == FirstCheck(MaxVerifyCount)

VerifyRespondsNotFound == VerifyAnswers({1})

\* time is followed up to the expiry of the code
LongTick == TickWithin(MaxDelay, ClockCap)

NextNotFound ==
    \/ selectProduct
    \/ handlePromoCode
    \/ handleSubmit
    \/ handleClose
    \/ PaymentCooldownTicks
    \/ KhqrResponds
    \/ FirstCheckFiresNotFound
    \/ CountdownTicks
    \/ CeilingFires
    \/ VerifyRespondsNotFound
    \/ LongTick

SpecNotFound == Init /\ [][NextNotFound]_vars

\* ---- one purchase of 5.00 without discount, confirmed at the third poll ------
\* Every service answers; POST /api/verify-payment answers 'not found' to the
\* first two polls and 'confirmed' to every later request; the price of the
\* product has not changed. The modal stays open.
ScenarioSelectProduct == SelectProduct({500})

ScenarioKhqrResponds == KhqrAnswers({"ok"})

ScenarioFirstCheckFires == FirstCheck(MaxVerifyCount)

ScenarioVerifyResponds == VerifyAnswers(IF posts.verify <= 2 THEN {1} ELSE {0})

ScenarioRecheckResponds == RecheckAnswers({0}, {500})

ScenarioTokenResponds == TokenAnswers({TRUE})

ScenarioTelegramResponds == TelegramAnswers({"ok"})

NextScenario ==
    \/ ScenarioSelectProduct
    \/ handleSubmit
    \/ ScenarioKhqrResponds
    \/ ScenarioFirstCheckFires
    \/ CountdownTicks
    \/ CeilingFires
    \/ ScenarioVerifyResponds
    \/ ScenarioRecheckResponds
    \/ PriceResponds
    \/ ScenarioTokenResponds
    \/ ScenarioTelegramResponds
    \/ Tick

SpecScenario == Init /\ [][NextScenario]_vars

\* ---- one purchase whose payment is confirmed at some poll -------------------
\* Every service answers; each POST /api/verify-payment answers 'not found' or
\* 'confirmed'; the price of the product has not changed. The modal stays open.
PollingFirstCheckFires == FirstCheck(MaxVerifyCount)

PollingVerifyResponds == VerifyAnswers({0, 1})

PollingRecheckResponds == RecheckAnswers({0, 1}, {500})

NextPolling ==
    \/ ScenarioSelectProduct
    \/ handleSubmit
    \/ ScenarioKhqrResponds
    \/ PollingFirstCheckFires
    \/ CountdownTicks
    \/ CeilingFires
    \/ PollingVerifyResponds
    \/ PollingRecheckResponds
    \/ PriceResponds
    \/ ScenarioTokenResponds
    \/ ScenarioTelegramResponds
    \/ Tick

SpecPolling == Init /\ [][NextPolling]_vars

\* ---- 'not found' answers that take their time --------------------------------
\* Every POST /api/verify-payment answers 'not found', up to one second later
\* than in the other specifications. The modal stays open.
SlowDelay == MaxDelay + 1

SlowFirstCheckFires == FirstCheck(MaxVerifyCount)

SlowVerifyResponds == VerifyAnswersWithin({1}, SlowDelay)

SlowTick == TickWithin(SlowDelay, QR_COOLDOWN_PERIOD)

NextSlow ==
    \/ ScenarioSelectProduct
    \/ handleSubmit
    \/ ScenarioKhqrResponds
    \/ SlowFirstCheckFires
    \/ CountdownTicks
    \/ CeilingFires
    \/ SlowVerifyResponds
    \/ SlowTick

SpecSlow == Init /\ [][NextSlow]_vars

\* ---- purchases whose price does not change -----------------------------------
\* A product of a price of AmountPrices is bought with a discount of
\* AmountDiscounts. Every service answers, the payment is confirmed, and
\* verifyCurrentPrice reads the price the amount was quoted from.
AmountSelectProduct == SelectProduct(AmountPrices)

AmountPromoCode == PromoCode(AmountDiscounts)

AmountVerifyResponds == VerifyAnswers({0})

AmountRecheckResponds == RecheckAnswers({0}, {price})

NextAmount ==
    \/ AmountSelectProduct
    \/ AmountPromoCode
    \/ handleSubmit
    \/ ScenarioKhqrResponds
    \/ FirstCheckFires
    \/ CountdownTicks
    \/ CeilingFires
    \/ AmountVerifyResponds
    \/ AmountRecheckResponds
    \/ PriceResponds
    \/ ScenarioTokenResponds
    \/ ScenarioTelegramResponds
    \/ Tick

SpecAmount == Init /\ [][NextAmount]_vars

\* ---- the order form, with a modal whose code request is not answered ----------
NextForm ==
    \/ selectGame
    \/ editUserId
    \/ editServerId
    \/ selectProduct
    \/ clearSavedInfo
    \/ validateAccount
    \/ ValidationResponds
    \/ handleSubmit
    \/ handleClose
    \/ PaymentCooldownTicks
    \/ Tick

SpecForm == Init /\ [][NextForm]_vars

\* ---- callbacks that never run -----------------------------------------------
\* The timeout of startRandomInterval is always cancelled by the polling effect
\* of the next render (at the latest the first countdown tick, one second
\* later), the expiry timeout is re-armed by every render, and startQrCooldown
\* is never called: none of the three callbacks is ever due.
NeverDue == Due("interval") = {} /\ Due("qr") = {} /\ Due("cooldown") = {}

\* variant B never stores a fingerprint, so its verification hook never starts
VariantBIdle == variant = "B" => ~md5Hash /\ ~qrCode /\ timers = {} /\ verifyCalls = <<>> /\ khqrCall.pending = 0

\* ==== claims ===============================================================

\* C1: within one modal instance POST /api/telegram is issued at most once,
\* whatever the verification answers are.
C1_NotifiedAtMostOnce == posts.telegram <= 1

\* C2: once status is 'success' in a modal instance it never takes another
\* value while that instance is mounted.
C2_SuccessIsTerminal ==
    [][(showCheckout /\ showCheckout' /\ status = "success") => status' = "success"]_vars

\* a verifyPayment invocation that was in the notification step (price check,
\* token, POST /api/telegram) ends without the notification having been sent
NotificationFails ==
    /\ showCheckout /\ showCheckout'
    /\ \E i \in 1..Len(verifyCalls) : verifyCalls[i].pc \in {"price", "token", "telegram"}
    /\ Len(verifyCalls') < Len(verifyCalls)
    /\ ~hasSentToTelegram'

\* C3: when the notification step fails after a 'confirmed' answer, the error
\* message is shown but status stays 'success'.
C3_NotificationFailureKeepsSuccess ==
    [][(NotificationFails /\ status = "success") =>
            (status' = "success" /\ errorMessage' # MsgNone)]_vars

\* the modal has no armed timer and no code-generation request
NoRequestNoTimer == posts.khqr = 0 /\ khqrCall.pending = 0 /\ timers = {}

\* C4: with a computed amount below 0.01 the modal never issues POST /api/khqr
\* and never arms a timer.
C4_SmallAmountIsInert ==
    (showCheckout /\ FinalAmount(price, discountPercent) < MIN_AMOUNT) => NoRequestNoTimer

\* a modal opened with a 100 % discount on a priced product has run generateKHQR
C4_Witness ==
    /\ showCheckout /\ price > 0
    /\ FinalAmount(price, discountPercent) < MIN_AMOUNT
    /\ status = "pending"

\* C5: with a computed amount below 0.01 the flow is in status 'error' with the
\* amount-too-small message.
C5_SmallAmountIsAnError ==
    (showCheckout /\ FinalAmount(price, discountPercent) < MIN_AMOUNT) =>
        (status = "error" /\ errorMessage = MsgTooSmall)

\* the effect that calls generateKHQR runs in this step (one of its dependencies changed)
GenerateAttempt ==
    showCheckout /\ showCheckout' /\ GenerateDeps(World) # GenerateDeps(World')

\* C6: less than 180 s after a successful generation no further POST /api/khqr
\* is issued, and an attempt sets the displayed cooldown to the remaining seconds.
C6_CooldownReported ==
    [][(GenerateAttempt /\ InCooldown(sinceQrGeneration')) =>
            (/\ posts'.khqr = posts.khqr
             /\ qrCooldown' = RemainingCooldown(sinceQrGeneration'))]_vars

\* C7: a modal reopened less than 180 s after the last generation issues no
\* POST /api/khqr.
C7_CooldownSurvivesClose ==
    [][(~showCheckout /\ showCheckout' /\ InCooldown(sinceQrGeneration)) =>
            khqrCall'.pending = 0]_vars

\* the POST /api/verify-payment requests that have not answered
OutstandingVerifications ==
    {i \in 1..Len(verifyCalls) : verifyCalls[i].pc \in {"verify", "recheck"}}

\* C8: at most one verification request is outstanding at any time.
C8_OneVerificationInFlight == Cardinality(OutstandingVerifications) <= 1

\* firstCheckTimeout fired while a verification request was outstanding: the
\* timeout it armed carries isProcessing = true and no second request exists
C8_Witness ==
    /\ Cardinality(OutstandingVerifications) = 1
    /\ \E t \in timers : t.kind = "interval" /\ t.cl.isProcessing

\* C9: a modal instance makes at most MAX_VERIFICATION_ATTEMPTS verification attempts.
C9_AtMostTwelveAttempts == posts.verify <= MAX_VERIFICATION_ATTEMPTS

\* the first verification ceiling of the instance has run out: the fingerprint
\* was stored at most MaxDelay after the generation time, the first check is
\* FIRST_CHECK_DELAY later and the ceiling VERIFICATION_TIMEOUT after that
PolledFor60s ==
    /\ showCheckout /\ md5Hash
    /\ sinceQrGeneration > MaxDelay + FIRST_CHECK_DELAY + VERIFICATION_TIMEOUT

\* C10: when every answer is 'not found', after 60 s of polling the flow is in
\* status 'error' with the timeout message, no polling timer is armed again and
\* no further verification request is issued.
C10_TimeoutStopsPolling ==
    /\ [](PolledFor60s =>
            /\ status = "error" /\ errorMessage = MsgTimeout
            /\ \A t \in timers : t.kind \notin {"first", "interval"})
    /\ [][(PolledFor60s /\ showCheckout') => posts'.verify = posts.verify]_vars

\* the callback of a timer of the modal runs in this step
TimerCallbackRuns == \E t \in timers : t.left = 0 /\ t \notin timers'

\* the verifyPayment invocations waiting for the answer of pc
Waiting(calls, pc) == {i \in 1..Len(calls) : calls[i].pc = pc}

\* a POST /api/verify-payment is issued in this step (a poll or a second verification)
VerificationRequestIssued ==
    \/ posts'.verify > posts.verify
    \/ Cardinality(Waiting(verifyCalls', "recheck")) > Cardinality(Waiting(verifyCalls, "recheck"))

\* C11: while the modal is closed no timer callback of the closed instance runs
\* and no verification request is issued, also when a verification request was
\* in flight at the moment of closing and answers afterwards.
C11_NothingRunsAfterClose ==
    [][(~showCheckout /\ ~showCheckout') =>
            (~TimerCallbackRuns /\ ~VerificationRequestIssued)]_vars

\* the expiry time of the code has passed: the expiry timeout is armed when the
\* fingerprint is stored, at most MaxDelay after the generation time
CodeExpired ==
    /\ showCheckout /\ md5Hash
    /\ sinceQrGeneration > QR_EXPIRY + MaxDelay

\* C12: when no verification answer is 'confirmed', 5 minutes after the code
\* was generated the flow is in status 'error' with the code-expired message
\* and no interval, ceiling or countdown timer is armed.
C12_CodeExpires ==
    CodeExpired =>
        /\ status = "error" /\ errorMessage = MsgExpired
        /\ \A t \in timers : t.kind \notin {"first", "interval", "ceiling", "countdown"}

\* the amount recomputed from the live price read by the invocation c differs
\* from the quoted amount by more than one cent
AmountMismatch(c) ==
    LET expected == ExpectedFinalAmount(c.live, discountPercent)
        quoted == FinalAmount(price, discountPercent)
    IN  c.live # -1 /\ (expected - quoted > 1 \/ quoted - expected > 1)

\* the price check of the invocation at the head of verifyCalls answers in this step
PriceCheckAnswers ==
    /\ showCheckout /\ showCheckout'
    /\ verifyCalls # <<>> /\ verifyCalls[1].pc = "price"
    /\ (verifyCalls' = <<>> \/ verifyCalls'[1].pc # "price")

\* C13: when the payment is confirmed but the amount recomputed from the live
\* price differs from the quoted amount by more than 0.01, POST /api/telegram
\* is not issued and the price-changed message is shown.
C13_PriceMismatchBlocksNotification ==
    [][(PriceCheckAnswers /\ AmountMismatch(verifyCalls[1])) =>
            (/\ verifyCalls' = <<>>
             /\ posts'.telegram = posts.telegram
             /\ errorMessage' = MsgPriceChanged)]_vars

\* the price check of a confirmed payment has failed on a changed price
C13_Witness ==
    /\ showCheckout /\ errorMessage = MsgPriceChanged
    /\ price = 500 /\ discountPercent = 0
    /\ posts.telegram = 0 /\ posts.verify = 1 /\ verifyCalls = <<>>

\* C14: in the scenario (5.00, no discount, 'not found' twice, then 'confirmed')
\* the flow ends in status 'success' with exactly one POST /api/telegram: from
\* the moment the notification has been sent the status is 'success' and one
\* notification request has been issued.
C14_ScenarioEndsInSuccess ==
    (showCheckout /\ hasSentToTelegram) => (status = "success" /\ posts.telegram = 1)

\* C15: after a POST /api/khqr of the instance has failed, status is 'error'
\* with a message, no code and no fingerprint is stored, and the instance has
\* no further code-generation request under way.
C15_GenerationFailureIsFinal ==
    (showCheckout /\ generationFailed) =>
        /\ status = "error" /\ errorMessage # MsgNone
        /\ ~qrCode /\ ~md5Hash
        /\ khqrCall.pending = 0

\* C16: an instance has at most one POST /api/khqr outstanding, and once a code
\* with its fingerprint is stored it stays stored and no further request that
\* could replace it is issued.
C16_OneCode ==
    /\ [](khqrCall.pending <= 1)
    /\ [][(showCheckout /\ showCheckout' /\ qrCode) =>
            (/\ qrCode' /\ md5Hash'
             /\ khqrCall'.pending = 0
             /\ posts'.khqr = posts.khqr)]_vars

\* a first request failed, the second one stored a code, and the instance has
\* polled since (the effect that calls generateKHQR has run again)
C16_Witness ==
    /\ showCheckout /\ qrCode /\ md5Hash
    /\ generationFailed /\ posts.verify >= 1
    /\ khqrCall.pending = 0

\* C17: when a verification answers with a responseCode other than 0 and 1, or
\* throws, status becomes 'error', and while the verification-failed message of
\* that answer is shown the instance issues no further verification request.
C17_VerificationErrorStopsPolling ==
    [][(showCheckout /\ showCheckout') =>
            (/\ (errorMessage # MsgVerifyFailed /\ errorMessage' = MsgVerifyFailed)
                    => status' = "error"
             /\ errorMessage = MsgVerifyFailed => ~VerificationRequestIssued)]_vars

\* a verification request issued in status 'checking' is in flight and the
\* flow has meanwhile reached 'error' by the verification timeout or the expiry
ErrorWhileInFlight ==
    /\ showCheckout
    /\ status = "error" /\ errorMessage \in {MsgTimeout, MsgExpired}
    /\ verifyCalls # <<>>
    /\ verifyCalls[1].pc = "verify" /\ verifyCalls[1].cl.status = "checking"

\* C18: when the flow reached 'error' by timeout or expiry while a verification
\* request was in flight, the answer of that request is ignored, also when it
\* is 'confirmed': status stays 'error' and the invocation ends without a
\* second verification or a notification.
C18_LateAnswerIgnored ==
    [][(ErrorWhileInFlight /\ showCheckout' /\ verifyCalls' # verifyCalls
            /\ (verifyCalls' = <<>> \/ verifyCalls'[1].pc # "verify")) =>
            (status' = "error" /\ verifyCalls' = <<>> /\ posts'.telegram = posts.telegram)]_vars

\* C19: in status 'success' or 'error' none of the five timers held in refs
\* (cooldown tick, polling interval, verification ceiling, code expiry,
\* check countdown) is armed.
C19_NoTimerInTerminalStatus ==
    (showCheckout /\ status \in {"success", "error"}) =>
        \A t \in timers :
            t.kind \notin {"cooldown", "interval", "ceiling", "qr", "countdown"}

\* the invocation waiting for the answer of its first verification request
\* ends in this step with isProcessing reset ('not found' does nothing else)
VerificationEnds ==
    /\ showCheckout /\ showCheckout'
    /\ verifyCalls # <<>> /\ verifyCalls[1].pc = "verify"
    /\ verifyCalls' = <<>> /\ ~isProcessing'

\* C20: a 'not found' answer leaves status, errorMessage, qrCode and the
\* fingerprint unchanged, cancels no armed timer, and leaves a next poll scheduled.
C20_NotFoundChangesNothing ==
    [][VerificationEnds =>
            (/\ status' = status /\ errorMessage' = errorMessage
             /\ qrCode' = qrCode /\ md5Hash' = md5Hash
             /\ timers \subseteq timers'
             /\ \E t \in timers' : t.kind \in {"first", "interval"})]_vars

\* C21: in every state of an open modal where status is 'error', errorMessage
\* is a non-empty message.
C21_ErrorHasMessage == (showCheckout /\ status = "error") => errorMessage # MsgNone

\* a verification answered with a failure: status is 'error' with its message
C21_Witness ==
    /\ showCheckout /\ status = "error" /\ errorMessage = MsgVerifyFailed
    /\ posts.verify >= 1 /\ verifyCalls = <<>>

\* the verification ceilings that are armed; startRandomInterval arms one of
\* VERIFICATION_TIMEOUT seconds at every poll
Ceilings == {t \in timers : t.kind = "ceiling"}

\* seconds since the last poll: what is gone of the youngest armed ceiling
SincePreviousPoll ==
    LET youngest == CHOOSE t \in Ceilings : \A u \in Ceilings : u.left <= t.left
    IN  VERIFICATION_TIMEOUT - youngest.left

\* C22: no verification request is issued earlier than 7 s after the
\* fingerprint was stored, and each request after the first is issued 5 s
\* (CHECK_INTERVAL) after the previous one.
C22_PollTiming ==
    [][(showCheckout /\ posts'.verify > posts.verify) =>
            (/\ sinceQrGeneration >= FIRST_CHECK_DELAY
             /\ (posts.verify >= 1 /\ Ceilings # {}) =>
                    SincePreviousPoll = CHECK_INTERVAL)]_vars

\* C23: for a price in whole cents and a discount in 0..100, finalAmount is
\* price * (100 - discountPercent) / 100 rounded once to the nearest cent,
\* exact halves up.
C23_RoundedOnce ==
    showCheckout =>
        FinalAmount(price, discountPercent) = RoundDiv100(price * (100 - discountPercent))

\* the second verification of the invocation at the head of verifyCalls answers
\* in this step, the notification not having been sent before
RecheckEnds ==
    /\ showCheckout /\ showCheckout' /\ ~hasSentToTelegram
    /\ verifyCalls # <<>> /\ verifyCalls[1].pc = "recheck"
    /\ (verifyCalls' = <<>> \/ verifyCalls'[1].pc # "recheck")

\* C24: after a 'confirmed' answer has set status 'success', the notification
\* attempt (price check, then POST /api/telegram) starts when the second
\* verification answers, whatever its answer is; only a second verification
\* that fails outright ends in the verification-failed error instead.
C24_NotificationNeverSkipped ==
    [][RecheckEnds =>
            (\/ verifyCalls' # <<>> /\ verifyCalls'[1].pc = "price"
             \/ status' = "error" /\ errorMessage' = MsgVerifyFailed)]_vars

\* C25: every armed timer of an open modal is held by its ref, or is the
\* first-check timeout held by the cleanup function of the polling effect; a
\* cleanup() call therefore cancels every armed interval, ceiling, expiry,
\* countdown and cooldown timer.
C25_RefsHoldArmedTimers ==
    showCheckout =>
        /\ \A t \in timers : IF t.kind = "first" THEN effectCleanup ELSE t.ref
        /\ \A t \in cleanup(World).timers : t.kind = "first"

\* C26: when the live price read by sendToTelegram equals the price the amount
\* was quoted from, the recomputed amount equals finalAmount and the price
\* check does not end in the price-changed error.
C26_UnchangedPricePasses ==
    [][(PriceCheckAnswers /\ verifyCalls[1].live = price) =>
            (/\ ExpectedFinalAmount(price, discountPercent) = FinalAmount(price, discountPercent)
             /\ errorMessage' # MsgPriceChanged)]_vars

\* C27: in an open modal qrCode and the fingerprint are both empty or both
\* stored, and without a fingerprint the instance has no verification request
\* under way and no armed timer.
C27_CodeWithFingerprint ==
    showCheckout =>
        /\ qrCode <=> md5Hash
        /\ ~md5Hash => (verifyCalls = <<>> /\ timers = {})

\* code and fingerprint are stored, a verification request is outstanding and
\* the next first-check timeout is armed
C27_Witness ==
    /\ showCheckout /\ qrCode /\ md5Hash
    /\ OutstandingVerifications # {}
    /\ \E t \in timers : t.kind = "first"

\* C28: the modal is opened only when paymentCooldown is 0, userId is a
\* non-empty numeric ID, a product is selected and, for game 'mlbb', serverId
\* is a non-empty numeric ID and a successful validation result is held; a
\* step that does not open the modal leaves orderFormat unchanged.
C28_SubmitGuards ==
    /\ [][(~showCheckout /\ showCheckout') =>
            (/\ paymentCooldown = 0
             /\ userId # "" /\ Numeric(userId)
             /\ price # -1
             /\ game = "mlbb" =>
                    (serverId # "" /\ Numeric(serverId) /\ validationResult # <<>>))]_vars
    /\ [][(showCheckout' = showCheckout) => orderFormat' = orderFormat]_vars

\* a validated Mobile Legends order is in the checkout
C28_Witness ==
    /\ showCheckout /\ game = "mlbb"
    /\ validationResult = <<userId, serverId>>
    /\ orderFormat = <<userId, serverId, price>>

\* C29: a successful validation result is held only for the userId and
\* serverId that are in the form, whatever the order of edits and validation
\* answers.
C29_ValidationMatchesForm ==
    validationResult # <<>> => validationResult = <<userId, serverId>>

\* C30: closing the modal sets paymentCooldown to 7 and arms one 1-second
\* interval; paymentCooldown stays within 0..7 and changes otherwise only by
\* a tick of that interval, by -1; the interval is armed exactly while
\* paymentCooldown is above 0, so that the seventh tick reaches 0 and stops;
\* the modal is not opened while paymentCooldown is above 0.
C30_PaymentCooldown ==
    /\ [](paymentCooldown \in 0..PAYMENT_COOLDOWN)
    /\ [](paymentCooldown > 0 <=> cooldownInterval \in {0, 1})
    /\ [](paymentCooldown = 0 <=> cooldownInterval = -1)
    /\ [][(showCheckout /\ ~showCheckout') =>
            (paymentCooldown' = PAYMENT_COOLDOWN /\ cooldownInterval' = 1)]_vars
    /\ [][(paymentCooldown' # paymentCooldown /\ ~(showCheckout /\ ~showCheckout')) =>
            (cooldownInterval = 0 /\ paymentCooldown' = paymentCooldown - 1)]_vars
    /\ [][(~showCheckout /\ showCheckout') => paymentCooldown = 0]_vars

\* the modal was closed six ticks ago and the seventh tick is due; the form
\* is complete, only the cooldown keeps the modal from being opened
C30_Witness ==
    /\ ~showCheckout /\ paymentCooldown = 1 /\ cooldownInterval = 0
    /\ ~FormErrors /\ ~NotValidated

====
